---------------------------- MODULE Spec2Model ----------------------------
(***************************************************************************)
(* A model of scripts/contrib_word_art.py: the glyph compositor            *)
(* (compose_word), the schedule planner (sunday_of_current_week,           *)
(* leftmost_sunday, plan_dates) and the command-line run (main, run,       *)
(* make_commit_for_date).                                                  *)
(*                                                                         *)
(* A date is its proleptic Gregorian ordinal (datetime.date.toordinal()),  *)
(* a timedelta is a number of days.  A word is a sequence of one-character *)
(* strings.  A canvas is a function row -> (column -> 0 or 1), rows and    *)
(* columns counted from 0 as in the code.                                  *)
(***************************************************************************)
EXTENDS Integers, Sequences, FiniteSets

(***************************************************************************)
(* Program constants.                                                      *)
(***************************************************************************)
Rows == 7

GlyphWidth == 5

DefaultColumns == 52

DefaultSpacing == 1

PlanColumns == 52

WeeksBack == 51

DaysPerWeek == 7

(***************************************************************************)
(* Bounds of the model.                                                    *)
(***************************************************************************)
\* the first value of today; the window of values of today holds every weekday
FirstToday == 739921

MaxTodayOffset == 6

MaxIntensity == 2

\* the longest word of one repeated letter
MaxRepeat == 9

\* words over FnAlphabet of at most this length are composed
MaxShortLen == 2

MaxSpacing == 2

\* the given canvases light cells of the first and last MaxProbeCol+1 columns
MaxProbeCol == 1

MaxPeriod == 3

(***************************************************************************)
(* The font.  glyph[r+1][x+1] = 1 is the code's glyph[r][x] == "1".         *)
(***************************************************************************)
FONT_5x7 ==
    [ N |-> << <<1,0,0,0,1>>,
               <<1,1,0,0,1>>,
               <<1,0,1,0,1>>,
               <<1,0,0,1,1>>,
               <<1,0,0,0,1>>,
               <<1,0,0,0,1>>,
               <<1,0,0,0,1>> >>,
      E |-> << <<1,1,1,1,1>>,
               <<1,0,0,0,0>>,
               <<1,1,1,1,0>>,
               <<1,0,0,0,0>>,
               <<1,1,1,1,1>>,
               <<0,0,0,0,0>>,
               <<0,0,0,0,0>> >>,
      R |-> << <<1,1,1,1,0>>,
               <<1,0,0,0,1>>,
               <<1,1,1,1,0>>,
               <<1,0,1,0,0>>,
               <<1,0,0,1,0>>,
               <<1,0,0,0,1>>,
               <<0,0,0,0,0>> >>,
      D |-> << <<1,1,1,1,0>>,
               <<1,0,0,0,1>>,
               <<1,0,0,0,1>>,
               <<1,0,0,0,1>>,
               <<1,1,1,1,0>>,
               <<0,0,0,0,0>>,
               <<0,0,0,0,0>> >>,
      L |-> << <<1,0,0,0,0>>,
               <<1,0,0,0,0>>,
               <<1,0,0,0,0>>,
               <<1,0,0,0,0>>,
               <<1,1,1,1,1>>,
               <<0,0,0,0,0>>,
               <<0,0,0,0,0>> >>,
      I |-> << <<1,1,1,1,1>>,
               <<0,0,1,0,0>>,
               <<0,0,1,0,0>>,
               <<0,0,1,0,0>>,
               <<1,1,1,1,1>>,
               <<0,0,0,0,0>>,
               <<0,0,0,0,0>> >> ]

\* ch in FONT_5x7
InFont(ch) == ch \in DOMAIN FONT_5x7

\* str.upper() on one character of the modelled alphabet
UpperChar(ch) ==
    CASE ch = "n" -> "N"
      [] ch = "e" -> "E"
      [] ch = "r" -> "R"
      [] ch = "d" -> "D"
      [] ch = "l" -> "L"
      [] ch = "i" -> "I"
      [] ch = "x" -> "X"
      [] OTHER -> ch

\* word.upper()
Upper(w) == [n \in 1..Len(w) |-> UpperChar(w[n])]

(***************************************************************************)
(* compose_word.                                                           *)
(***************************************************************************)
\* canvas = [[0 for _ in range(cols)] for _ in range(rows)]
BlankCanvas(cols) == [r \in 0..(Rows - 1) |-> [j \in 0..(cols - 1) |-> 0]]

\* the measuring loop: the glyphs of the supported characters, in order
RECURSIVE MeasureLetters(_)
MeasureLetters(up) ==
    IF up = <<>> THEN <<>>
    ELSE IF InFont(Head(up))
         THEN <<FONT_5x7[Head(up)]>> \o MeasureLetters(Tail(up))
         ELSE MeasureLetters(Tail(up))

\* MeasureWidth without "width -= spacing": the trailing space is counted
MeasureWidth_trailing(letters, sp) == Len(letters) * (GlyphWidth + sp)

\* the measuring loop: width after the loop, and the trailing space taken off
MeasureWidth(letters, sp) ==
    LET w == Len(letters) * (GlyphWidth + sp)
    IN  IF letters # <<>> THEN w - sp ELSE w

\* start_col = max(0, (cols - width) // 2)
StartCol(cols, width) ==
    LET s == (cols - width) \div 2
    IN  IF s > 0 THEN s ELSE 0

\* the r, x loops for one glyph at column c
StampGlyph(cv, glyph, c, cols) ==
    [r \in 0..(Rows - 1) |->
        [j \in 0..(cols - 1) |->
            IF \E x \in 0..(GlyphWidth - 1) :
                   /\ glyph[r + 1][x + 1] = 1
                   /\ 0 <= c + x
                   /\ c + x < cols
                   /\ j = c + x
            THEN 1
            ELSE cv[r][j]]]

\* c += 5 + spacing
NextGlyphCol(c, sp) == c + GlyphWidth + sp

\* for glyph in letters
RECURSIVE StampLetters(_, _, _, _, _)
StampLetters(cv, letters, c, cols, sp) ==
    IF letters = <<>> THEN cv
    ELSE StampLetters(StampGlyph(cv, Head(letters), c, cols),
                      Tail(letters), NextGlyphCol(c, sp), cols, sp)

compose_word(w, cols, sp) ==
    LET letters == MeasureLetters(Upper(w))
        width == MeasureWidth(letters, sp)
    IN  StampLetters(BlankCanvas(cols), letters, StartCol(cols, width), cols, sp)

(***************************************************************************)
(* The planner.                                                            *)
(***************************************************************************)
\* date.weekday(): Monday = 0 .. Sunday = 6; ordinal 1 is a Monday
Weekday(d) == (d + 6) % 7

\* sunday_of_current_week without the + 1: rolls back to Monday
sunday_of_current_week_monday(t) == t - (Weekday(t) % 7)

sunday_of_current_week(t) ==
    LET days_since_sun == (Weekday(t) + 1) % 7
    IN  t - days_since_sun

leftmost_sunday(t) == sunday_of_current_week(t) - DaysPerWeek * WeeksBack

\* CellDate with weeks and days exchanged
CellDate_swapped(start, col, row) == (start + col) + DaysPerWeek * row

\* CellDate with row 0 taken for Monday
CellDate_monday(start, col, row) == (start + DaysPerWeek * col) + row + 1

\* col_sun + dt.timedelta(days=row), col_sun = start + dt.timedelta(weeks=col)
CellDate(start, col, row) == (start + DaysPerWeek * col) + row

\* for row in range(7), rows row..6 of column col
RECURSIVE PlanRows(_, _, _, _)
PlanRows(cv, start, col, row) ==
    IF row >= Rows THEN <<>>
    ELSE (IF cv[row][col] # 0 THEN <<CellDate(start, col, row)>> ELSE <<>>)
         \o PlanRows(cv, start, col, row + 1)

\* for col in range(52), columns col..51
RECURSIVE PlanCols(_, _, _)
PlanCols(cv, start, col) ==
    IF col >= PlanColumns THEN <<>>
    ELSE PlanRows(cv, start, col, 0) \o PlanCols(cv, start, col + 1)

plan_dates(cv, t) == PlanCols(cv, leftmost_sunday(t), 0)

(***************************************************************************)
(* The state of one run.                                                   *)
(***************************************************************************)
VARIABLES
    pc,            \* the position of the run
    word,          \* args.word (compose_word's word)
    totalColumns,  \* compose_word's total_columns
    spacing,       \* compose_word's spacing
    today,         \* dt.date.today()
    intensity,     \* args.intensity
    apply,         \* args.apply
    push,          \* args.push
    argEmail,      \* args.email, "" when absent
    envEmail,      \* os.environ.get("GIT_AUTHOR_EMAIL"), "" when unset
    canvas,        \* the composed canvas
    dates,         \* the schedule
    reported,      \* what the run printed: <<>> or <<[pixels, total]>>
    di,            \* the outer loop: the index in dates of d, from 1
    k,             \* the inner loop: k
    fileLines,     \* the lines appended to the tracking file: their dates
    commits,       \* the commits created: their dates
    gitCalls,      \* the git commands run, in order
    pushed,        \* git push has succeeded
    failed,        \* a git invocation returned a non-zero status
    exitCode       \* the exit status of the process, -1 while it runs

vars == <<pc, word, totalColumns, spacing, today, intensity, apply, push,
          argEmail, envEmail, canvas, dates, reported, di, k, fileLines,
          commits, gitCalls, pushed, failed, exitCode>>

inputs == <<word, totalColumns, spacing, today, intensity, apply, push,
            argEmail, envEmail>>

effects == <<fileLines, commits, gitCalls, pushed, failed>>

(***************************************************************************)
(* The inputs the model draws.                                             *)
(***************************************************************************)
Todays == FirstToday..(FirstToday + MaxTodayOffset)

Intensities == (-1)..MaxIntensity

Repeat(ch, n) == [m \in 1..n |-> ch]

NERDLIN == <<"N", "E", "R", "D", "L", "I", "N">>

\* the words given with --word
MainWords ==
    { <<>>, <<"i">>, <<"N", "x">>, <<"n", "e", "r", "d", "l", "i", "n">>,
      Repeat("L", MaxRepeat) }

Emails == {"", "me@users.noreply.github.com"}

EnvEmails == {"", "env@example.org"}

(***************************************************************************)
(* main.                                                                   *)
(***************************************************************************)
Init ==
    /\ pc = "compose"
    /\ word \in MainWords
    /\ totalColumns = DefaultColumns
    /\ spacing = DefaultSpacing
    /\ today \in Todays
    /\ intensity \in Intensities
    /\ apply \in BOOLEAN
    /\ push \in BOOLEAN
    /\ argEmail \in Emails
    /\ envEmail \in EnvEmails
    /\ canvas = BlankCanvas(0)
    /\ dates = <<>>
    /\ reported = <<>>
    /\ di = 1
    /\ k = 0
    /\ fileLines = <<>>
    /\ commits = <<>>
    /\ gitCalls = <<>>
    /\ pushed = FALSE
    /\ failed = FALSE
    /\ exitCode = -1

\* canvas = compose_word(args.word)
ComposeWord ==
    /\ pc = "compose"
    /\ canvas' = compose_word(word, totalColumns, spacing)
    /\ pc' = "plan"
    /\ UNCHANGED <<inputs, dates, reported, di, k, effects, exitCode>>

\* dates = plan_dates(canvas)
PlanDates ==
    /\ pc = "plan"
    /\ totalColumns >= PlanColumns
    /\ dates' = plan_dates(canvas, today)
    /\ pc' = "report"
    /\ UNCHANGED <<inputs, canvas, reported, di, k, effects, exitCode>>

\* len(dates) * args.intensity
PlannedTotal(ds, n) == Len(ds) * n

\* print(f"Pixels lit: ...; total commits planned: ...")
ReportPlan ==
    /\ pc = "report"
    /\ reported' = <<[pixels |-> Len(dates),
                      total |-> PlannedTotal(dates, intensity)]>>
    /\ pc' = "apply_check"
    /\ UNCHANGED <<inputs, canvas, dates, di, k, effects, exitCode>>

\* IsDryRun that --push overrides
IsDryRun_unless_push == ~apply /\ ~push

\* if not args.apply
IsDryRun == ~apply

\* if not args.apply: return
DryRunReturn ==
    /\ pc = "apply_check"
    /\ IsDryRun
    /\ pc' = "done"
    /\ exitCode' = 0
    /\ UNCHANGED <<inputs, canvas, dates, reported, di, k, effects>>

ApplyRun ==
    /\ pc = "apply_check"
    /\ ~IsDryRun
    /\ pc' = "email_check"
    /\ UNCHANGED <<inputs, canvas, dates, reported, di, k, effects, exitCode>>

\* AuthorEmail with a default address in place of ""
AuthorEmail_default ==
    IF argEmail # "" THEN argEmail
    ELSE IF envEmail # "" THEN envEmail ELSE "nobody@localhost"

\* author_email = args.email or os.environ.get("GIT_AUTHOR_EMAIL") or ""
AuthorEmail == IF argEmail # "" THEN argEmail ELSE envEmail

\* if not author_email: raise SystemExit("--email is required ...")
EmailMissing ==
    /\ pc = "email_check"
    /\ AuthorEmail = ""
    /\ pc' = "done"
    /\ exitCode' = 1
    /\ UNCHANGED <<inputs, canvas, dates, reported, di, k, effects>>

EmailPresent ==
    /\ pc = "email_check"
    /\ AuthorEmail # ""
    /\ pc' = "repo_check"
    /\ UNCHANGED <<inputs, canvas, dates, reported, di, k, effects, exitCode>>

\* Run with subprocess.call: the status is not checked
Run_unchecked(cmd, ok, next) ==
    /\ gitCalls' = Append(gitCalls, cmd)
    /\ failed' = (failed \/ ~ok)
    /\ pc' = next
    /\ exitCode' = IF next = "done" THEN 0 ELSE exitCode

\* run(cmd): subprocess.check_call raises CalledProcessError on a non-zero
\* status, which nothing catches: the process ends with status 1
Run(cmd, ok, next) ==
    /\ gitCalls' = Append(gitCalls, cmd)
    /\ failed' = (failed \/ ~ok)
    /\ IF ok
       THEN /\ pc' = next
            /\ exitCode' = IF next = "done" THEN 0 ELSE exitCode
       ELSE /\ pc' = "done"
            /\ exitCode' = 1

\* run("git rev-parse --is-inside-work-tree >NUL 2>&1")
RepoCheck ==
    /\ pc = "repo_check"
    /\ \E ok \in BOOLEAN : Run("rev-parse", ok, "loop")
    /\ di' = 1
    /\ k' = 0
    /\ UNCHANGED <<inputs, canvas, dates, reported, fileLines, commits, pushed>>

\* for d in dates: for k in range(args.intensity): there is a next repetition
HasIteration == di <= Len(dates) /\ k < intensity

\* make_commit_for_date: the line appended to the tracking file
AppendLine ==
    /\ pc = "loop"
    /\ HasIteration
    /\ fileLines' = Append(fileLines, dates[di])
    /\ pc' = "git_add"
    /\ UNCHANGED <<inputs, canvas, dates, reported, di, k, commits, gitCalls,
                   pushed, failed, exitCode>>

\* make_commit_for_date: run(f"git add {file_path.as_posix()}")
GitAdd ==
    /\ pc = "git_add"
    /\ \E ok \in BOOLEAN : Run("add", ok, "git_commit")
    /\ UNCHANGED <<inputs, canvas, dates, reported, di, k, fileLines, commits,
                   pushed>>

\* NextRepetition that leaves the inner loop after one repetition
NextRepetition_once(i, j) == <<i + 1, 0>>

\* the loops step: the next k, or the next d with k = 0
NextRepetition(i, j) ==
    IF j + 1 < intensity THEN <<i, j + 1>> ELSE <<i + 1, 0>>

\* make_commit_for_date: run('git commit -m ...', env=env), dated the_date
GitCommit ==
    /\ pc = "git_commit"
    /\ \E ok \in BOOLEAN :
          /\ Run("commit", ok, "loop")
          /\ commits' = IF ok THEN Append(commits, dates[di]) ELSE commits
          /\ di' = IF ok THEN NextRepetition(di, k)[1] ELSE di
          /\ k' = IF ok THEN NextRepetition(di, k)[2] ELSE k
    /\ UNCHANGED <<inputs, canvas, dates, reported, fileLines, pushed>>

\* the loops are over
LoopExit ==
    /\ pc = "loop"
    /\ ~HasIteration
    /\ pc' = "push_check"
    /\ UNCHANGED <<inputs, canvas, dates, reported, di, k, effects, exitCode>>

\* if args.push
WantsPush == push

\* if args.push: run("git push")
GitPush ==
    /\ pc = "push_check"
    /\ WantsPush
    /\ \E ok \in BOOLEAN :
          /\ Run("push", ok, "done")
          /\ pushed' = ok
    /\ UNCHANGED <<inputs, canvas, dates, reported, di, k, fileLines, commits>>

NoPush ==
    /\ pc = "push_check"
    /\ ~WantsPush
    /\ pc' = "done"
    /\ exitCode' = 0
    /\ UNCHANGED <<inputs, canvas, dates, reported, di, k, effects>>

Next ==
    \/ ComposeWord
    \/ PlanDates
    \/ ReportPlan
    \/ DryRunReturn
    \/ ApplyRun
    \/ EmailMissing
    \/ EmailPresent
    \/ RepoCheck
    \/ AppendLine
    \/ GitAdd
    \/ GitCommit
    \/ LoopExit
    \/ GitPush
    \/ NoPush

Spec == Init /\ [][Next]_vars

(***************************************************************************)
(* compose_word and plan_dates on their own: compose_word with every       *)
(* total_columns and spacing, plan_dates on canvases that are given.       *)
(***************************************************************************)
FnAlphabet == {"N", "i", "x"}

ShortWords == UNION {[1..n -> FnAlphabet] : n \in 0..MaxShortLen}

FnWords ==
    ShortWords \cup {<<ch>> : ch \in DOMAIN FONT_5x7}
               \cup {NERDLIN, <<"n", "e", "r", "d", "l", "i", "n">>,
                     Repeat("L", MaxRepeat)}

ColumnChoices == {0, 3, 12, 52, 53, 60}

Spacings == 0..MaxSpacing

ProbeCols ==
    (0..MaxProbeCol) \cup ((PlanColumns - 1 - MaxProbeCol)..(PlanColumns - 1))

ProbeCells == ProbeCols \X (0..(Rows - 1))

\* the canvas whose lit cells <<column, row>> are those of S
CanvasOfCells(S) ==
    [r \in 0..(Rows - 1) |->
        [j \in 0..(PlanColumns - 1) |-> IF <<j, r>> \in S THEN 1 ELSE 0]]

\* the canvas that lights every m-th cell of the scan, from the a-th
PeriodicCanvas(m, a) ==
    [r \in 0..(Rows - 1) |->
        [j \in 0..(PlanColumns - 1) |->
            IF ((Rows * j + r) % m) = a THEN 1 ELSE 0]]

GivenCanvases ==
    {CanvasOfCells({a, b}) : a \in ProbeCells, b \in ProbeCells}
        \cup {PeriodicCanvas(m, a) : m \in 1..MaxPeriod, a \in 0..MaxPeriod}

FnInit ==
    /\ \/ /\ pc = "compose"
          /\ word \in FnWords
          /\ totalColumns \in ColumnChoices
          /\ spacing \in Spacings
          /\ canvas = BlankCanvas(0)
       \/ /\ pc = "plan_given"
          /\ word = <<>>
          /\ totalColumns = PlanColumns
          /\ spacing = DefaultSpacing
          /\ canvas \in GivenCanvases
    /\ today \in Todays
    /\ intensity = 0
    /\ apply = FALSE
    /\ push = FALSE
    /\ argEmail = ""
    /\ envEmail = ""
    /\ dates = <<>>
    /\ reported = <<>>
    /\ di = 1
    /\ k = 0
    /\ fileLines = <<>>
    /\ commits = <<>>
    /\ gitCalls = <<>>
    /\ pushed = FALSE
    /\ failed = FALSE
    /\ exitCode = -1

\* plan_dates on a given canvas
PlanGiven ==
    /\ pc = "plan_given"
    /\ dates' = plan_dates(canvas, today)
    /\ pc' = "report"
    /\ UNCHANGED <<inputs, canvas, reported, di, k, effects, exitCode>>

\* canvas[row][col] with col >= total_columns raises IndexError
PlanRaises ==
    /\ pc = "plan"
    /\ totalColumns < PlanColumns
    /\ pc' = "done"
    /\ exitCode' = 1
    /\ UNCHANGED <<inputs, canvas, dates, reported, di, k, effects>>

FnNext ==
    \/ ComposeWord
    \/ PlanDates
    \/ PlanGiven
    \/ PlanRaises

SpecFn == FnInit /\ [][FnNext]_vars

(***************************************************************************)
(* What the claims are stated with.                                        *)
(***************************************************************************)
\* the lit cells <<column, row>> of a canvas of 52 columns
LitCells(cv) ==
    {cell \in (0..51) \X (0..6) : cv[cell[2]][cell[1]] # 0}

\* each element is at most the next, so at most every later one
NonDecreasing(sq) == \A n \in 1..(Len(sq) - 1) : sq[n] <= sq[n + 1]

\* the place in the scan (column 0..51, then row 0..6) of a lit cell, from 1
ScanRank(cv, cell) ==
    Cardinality({other \in LitCells(cv) :
                    7 * other[1] + other[2] < 7 * cell[1] + cell[2]}) + 1

IsSunday(d) == (d % 7) = 0

\* the canvas the contract of compose_word describes
RefLetters(w) == SelectSeq(Upper(w), InFont)

RefWidth(n, sp) == IF n = 0 THEN 0 ELSE 5 * n + sp * (n - 1)

RefStart(cols, width) ==
    IF (cols - width) \div 2 > 0 THEN (cols - width) \div 2 ELSE 0

RefCanvas(w, cols, sp) ==
    LET ls == RefLetters(w)
        start == RefStart(cols, RefWidth(Len(ls), sp))
    IN  [r \in 0..6 |->
            [j \in 0..(cols - 1) |->
                IF \E i \in 0..(Len(ls) - 1) : \E x \in 0..4 :
                       /\ j = start + i * (5 + sp) + x
                       /\ FONT_5x7[ls[i + 1]][r + 1][x + 1] = 1
                THEN 1
                ELSE 0]]

NoCellLit(cv, cols) == \A r \in 0..6 : \A j \in 0..(cols - 1) : cv[r][j] = 0

\* the run is an apply run with an author email
Applying == apply /\ (argEmail # "" \/ envEmail # "")

(***************************************************************************)
(* C1.  For every canvas of 7 rows and 52 columns and every today,         *)
(* plan_dates emits its dates in non-decreasing order, and as many dates   *)
(* as the canvas has lit cells.                                            *)
(***************************************************************************)
C1_PlanOrderedAndCounted ==
    (pc = "report" /\ totalColumns = 52) =>
        /\ NonDecreasing(dates)
        /\ Len(dates) = Cardinality(LitCells(canvas))

C1_Witness ==
    /\ pc = "report"
    /\ totalColumns = 52
    /\ canvas[1][0] # 0
    /\ canvas[0][1] # 0
    /\ Len(dates) = 2
    /\ dates[1] < dates[2]

(***************************************************************************)
(* C2.  For every today, leftmost_sunday(today) is a Sunday, and 51 weeks  *)
(* after it is sunday_of_current_week(today), the most recent Sunday not   *)
(* after today: today when today is a Sunday, never more than 6 days       *)
(* before today.  The schedule of a canvas whose first cell is lit starts  *)
(* on it.                                                                  *)
(***************************************************************************)
C2_AnchorIsSunday ==
    LET a == leftmost_sunday(today)
        s == sunday_of_current_week(today)
    IN  /\ IsSunday(a)
        /\ a + 51 * 7 = s
        /\ IsSunday(s)
        /\ s <= today
        /\ today - s <= 6
        /\ (IsSunday(today) => s = today)
        /\ (pc = "report" /\ canvas[0][0] # 0) => dates[1] = a

C2_Witness ==
    /\ pc = "report"
    /\ canvas[0][0] # 0
    /\ (today % 7) = 3
    /\ dates[1] = today - 3 - 357

(***************************************************************************)
(* C3.  compose_word returns the canvas of its contract: the supported     *)
(* characters of the upper-cased word, 5 columns each and spacing columns  *)
(* between them, centred, clipped to the canvas.  One supported letter is  *)
(* its glyph at columns 23..27 of 52; no supported character lights        *)
(* nothing; a word wider than the canvas starts at column 0.               *)
(***************************************************************************)
C3_ComposeMatchesContract ==
    (pc = "plan") =>
        /\ canvas = RefCanvas(word, totalColumns, spacing)
        /\ (Len(word) = 1 /\ InFont(Upper(word)[1]) /\ totalColumns = 52) =>
               \A r \in 0..6 : \A j \in 0..51 :
                   canvas[r][j] =
                       IF j \in 23..27
                       THEN FONT_5x7[Upper(word)[1]][r + 1][j - 23 + 1]
                       ELSE 0
        /\ (RefLetters(word) = <<>>) => NoCellLit(canvas, totalColumns)
        /\ (RefWidth(Len(RefLetters(word)), spacing) > totalColumns) =>
               \A r \in 0..6 : \A j \in 0..(totalColumns - 1) :
                   (canvas[r][j] = 1) <=>
                       /\ (j % (5 + spacing)) < 5
                       /\ (j \div (5 + spacing)) < Len(RefLetters(word))
                       /\ FONT_5x7[RefLetters(word)[(j \div (5 + spacing)) + 1]]
                                  [r + 1][(j % (5 + spacing)) + 1] = 1

C3_Witness ==
    /\ pc = "plan"
    /\ word = <<"N", "i">>
    /\ totalColumns = 3
    /\ spacing = 2
    /\ canvas[0][0] = 1
    /\ canvas[1][1] = 1
    /\ canvas[0][2] = 0
    /\ canvas[2][2] = 1

(***************************************************************************)
(* C4.  Round trip: for every canvas of 7 rows and 52 columns and every    *)
(* today, the date d emitted for the lit cell (column, row) has            *)
(* (d - anchor) div 7 = column and (d - anchor) mod 7 = row, with anchor = *)
(* leftmost_sunday(today); distinct lit cells get distinct dates.          *)
(***************************************************************************)
C4_RoundTrip ==
    (pc = "report" /\ totalColumns = 52) =>
        /\ \A cell \in LitCells(canvas) :
              /\ ScanRank(canvas, cell) <= Len(dates)
              /\ LET d == dates[ScanRank(canvas, cell)]
                     anchor == leftmost_sunday(today)
                 IN  /\ ((d - anchor) \div 7) = cell[1]
                     /\ ((d - anchor) % 7) = cell[2]
        /\ \A m \in 1..Len(dates) : \A n \in 1..Len(dates) :
              m # n => dates[m] # dates[n]

C4_Witness ==
    /\ pc = "report"
    /\ totalColumns = 52
    /\ canvas[6][51] # 0
    /\ canvas[3][0] # 0
    /\ Len(dates) = 2
    /\ dates[2] - dates[1] = 51 * 7 + 3

(***************************************************************************)
(* C5.  In an apply run in which no git invocation fails, with intensity   *)
(* >= 0, the commits are made in schedule order, intensity of them for     *)
(* each date before any for the next: their dates never decrease and they  *)
(* are (lit cells) x intensity in all.  With intensity = 0 there is no     *)
(* commit and no line in the tracking file.                                *)
(***************************************************************************)
C5_CommitsFollowSchedule ==
    (apply /\ intensity >= 0) =>
        /\ (intensity = 0) => (commits = <<>> /\ fileLines = <<>>)
        /\ Len(commits) <= Len(dates) * intensity
        /\ (intensity > 0) =>
               \A n \in 1..Len(commits) :
                   commits[n] = dates[((n - 1) \div intensity) + 1]
        /\ NonDecreasing(commits)
        /\ (pc = "done" /\ ~failed /\ Applying) =>
               Len(commits) = Cardinality(LitCells(canvas)) * intensity

C5_Witness ==
    /\ pc = "done"
    /\ Applying
    /\ ~failed
    /\ intensity = 2
    /\ Len(dates) = 102
    /\ Len(commits) = 204
    /\ commits[1] = commits[2]
    /\ commits[2] < commits[3]

(***************************************************************************)
(* C6.  Without --apply, whatever the other options, the run reports the   *)
(* plan and ends with status 0: no line in the tracking file, no git       *)
(* command, no push.                                                       *)
(***************************************************************************)
C6_DryRunHasNoEffects ==
    (~apply) =>
        /\ fileLines = <<>>
        /\ gitCalls = <<>>
        /\ commits = <<>>
        /\ ~pushed
        /\ pc \in {"compose", "plan", "report", "apply_check", "done"}
        /\ (pc = "done") => (exitCode = 0 /\ reported # <<>>)

C6_Witness ==
    /\ ~apply
    /\ push
    /\ argEmail = ""
    /\ envEmail = ""
    /\ intensity = 2
    /\ pc = "done"
    /\ exitCode = 0
    /\ reported = <<[pixels |-> 102, total |-> 204]>>

(***************************************************************************)
(* C7.  With --apply and no author email (no --email, no non-empty         *)
(* GIT_AUTHOR_EMAIL) the run aborts with a non-zero status before the      *)
(* repository check, any line in the tracking file, any commit and any     *)
(* push.                                                                   *)
(***************************************************************************)
C7_MissingEmailAborts ==
    (apply /\ argEmail = "" /\ envEmail = "") =>
        /\ gitCalls = <<>>
        /\ fileLines = <<>>
        /\ commits = <<>>
        /\ ~pushed
        /\ pc \in {"compose", "plan", "report", "apply_check", "email_check",
                   "done"}
        /\ (pc = "done") => exitCode > 0

C7_Witness ==
    /\ apply
    /\ push
    /\ argEmail = ""
    /\ envEmail = ""
    /\ intensity = 2
    /\ Len(dates) > 0
    /\ pc = "done"
    /\ exitCode = 1

(***************************************************************************)
(* C8.  A failed git invocation (repository check, git add, git commit)    *)
(* ends the run there with a non-zero status: after it no line is          *)
(* appended, no commit is created, no git command is run (no retry, no     *)
(* push); git push is run only with --push and after every scheduled       *)
(* commit was created.                                                     *)
(***************************************************************************)
C8_FailureAborts ==
    [][ /\ failed => UNCHANGED <<fileLines, commits, gitCalls, pushed>>
        /\ (failed' /\ ~failed) =>
               /\ pc' = "done"
               /\ exitCode' > 0
               /\ commits' = commits
               /\ fileLines' = fileLines
               /\ ~pushed'
        /\ (Len(gitCalls') > Len(gitCalls)
                /\ gitCalls'[Len(gitCalls')] = "push") =>
               /\ push
               /\ ~failed
               /\ Len(commits) =
                      Len(dates) * (IF intensity > 0 THEN intensity ELSE 0)
      ]_vars

C8_Witness ==
    /\ failed
    /\ push
    /\ ~pushed
    /\ pc = "done"
    /\ exitCode = 1
    /\ Len(commits) = 3
    /\ Len(fileLines) = 4
    /\ gitCalls[Len(gitCalls)] = "add"
    /\ Len(dates) * intensity > 3

(***************************************************************************)
(* C9.  For every word the command line accepts and every today, each      *)
(* scheduled date is within the last 52 weeks: not after today and less    *)
(* than 364 days before it.                                                *)
(***************************************************************************)
C9_DatesWithinLast52Weeks ==
    (pc \notin {"compose", "plan"}) =>
        \A n \in 1..Len(dates) :
            /\ dates[n] <= today
            /\ today - dates[n] < 364

(***************************************************************************)
(* C10.  For every intensity the command line accepts, the total the run   *)
(* reports as planned is the number of commits an apply run in which no    *)
(* git invocation fails creates.                                           *)
(***************************************************************************)
C10_ReportedTotalIsCommitCount ==
    (pc = "done" /\ Applying /\ ~failed) =>
        reported[1].total = Len(commits)

=============================================================================
